---- MODULE Spec2Model ----
(***************************************************************************)
(* Model of pitch_compare.py: the alignment and deviation-scoring pipeline *)
(* of main() (extract_pitch -> align_with_dtw -> calculate_pitch_diff ->   *)
(* generate_report) and its pure helpers hz_to_cents / hz_to_note_name.    *)
(*                                                                         *)
(* Floating-point values are records [k, v]: k = "num" carries the value v *)
(* (an integer here), k = "nan" is NaN, k = "neginf"/"posinf" are the      *)
(* infinities, k = "lowest"/"highest" are the most negative / most         *)
(* positive finite doubles that numpy.nan_to_num substitutes for them.     *)
(* Frequencies are drawn from octaves of 55 Hz so that log2 of every ratio *)
(* the code forms is an integer and is computed exactly.                   *)
(***************************************************************************)
EXTENDS Integers, Sequences, FiniteSets, TLC

VARIABLES pc, f0_1, f0_2, cents1_filled, cents2_filled, wp, D, diffs,
          report, err, cents, note

vars == <<pc, f0_1, f0_2, cents1_filled, cents2_filled, wp, D, diffs,
          report, err, cents, note>>

\* ---------------------------------------------------------------- bounds
MaxLen == 3
MaxDiffs == 5

\* ---------------------------------------------------------------- floats
Num(x) == [k |-> "num", v |-> x]
NaN == [k |-> "nan", v |-> 0]
NegInf == [k |-> "neginf", v |-> 0]
PosInf == [k |-> "posinf", v |-> 0]
Lowest == [k |-> "lowest", v |-> 0]
Highest == [k |-> "highest", v |-> 0]

isnan(x) == x.k = "nan"

Abs(x) == IF x < 0 THEN -x ELSE x

\* log2(p/q) for p, q > 0 whose ratio is a power of two
RECURSIVE Log2(_, _)
Log2(p, q) ==
  IF p = q THEN 0
  ELSE IF p > q THEN 1 + Log2(p, 2 * q)
  ELSE Log2(2 * p, q) - 1

\* np.log2(a / b) on doubles, warnings suppressed or not: never raises
np_log2_div(a, b) ==
  IF isnan(a) \/ isnan(b) THEN NaN
  ELSE IF b.v = 0 THEN (IF a.v > 0 THEN PosInf ELSE NaN)
  ELSE IF a.v = 0 THEN NegInf
  ELSE IF (a.v < 0) # (b.v < 0) THEN NaN
  ELSE Num(Log2(Abs(a.v), Abs(b.v)))

\* the array with elements e[1], ..., e[n], as a sequence
Array(e) == e \o <<>>

\* 1200 * x on doubles
times1200(x) == IF x.k = "num" THEN Num(1200 * x.v) ELSE x

\* hz_to_cents, ref_hz = 440.0, applied to each element of the array
hz_to_cents(f0) ==
  Array([n \in 1..Len(f0) |-> times1200(np_log2_div(f0[n], Num(440)))])

\* np.nan_to_num(x, nan=0): NaN -> 0, infinities -> extreme finite doubles
nan_to_num(x) ==
  Array([n \in 1..Len(x) |->
           IF x[n].k = "nan" THEN Num(0)
           ELSE IF x[n].k = "neginf" THEN Lowest
           ELSE IF x[n].k = "posinf" THEN Highest
           ELSE x[n]])

note_names == <<"C", "C#", "D", "D#", "E", "F", "F#", "G", "G#", "A", "A#", "B">>

\* hz_to_note_name: "" is <<>>, a name is <<letter, octave>>
hz_to_note_name(hz) ==
  IF isnan(hz) \/ hz.v <= 0 THEN <<>>
  ELSE LET note_num == 12 * np_log2_div(hz, Num(440)).v + 69
       IN <<note_names[(note_num % 12) + 1], (note_num \div 12) - 1>>

\* ------------------------------------------------- librosa.sequence.dtw
\* The call at align_with_dtw passes no step_sizes_sigma, weights or subseq,
\* so the library's defaults apply: steps (1,1), (0,1), (1,0) tried in
\* this order, additive weights 0, multiplicative weights 1.
Inf == 10 ^ 9

AddInf(x, y) == IF x = Inf THEN Inf ELSE x + y

step_sizes_up_first == << <<1, 1>>, <<1, 0>>, <<0, 1>> >>

step_sizes_sigma == << <<1, 1>>, <<0, 1>>, <<1, 0>> >>

cdist_signed(X, Y) ==
  Array([n \in 1..Len(X) |-> Array([m \in 1..Len(Y) |-> X[n].v - Y[m].v])])

\* scipy cdist, metric='euclidean', on 1-dimensional observations: row n,
\* column m holds |X[n] - Y[m]|
cdist(X, Y) ==
  Array([n \in 1..Len(X) |-> Array([m \in 1..Len(Y) |-> Abs(X[n].v - Y[m].v)])])

\* The accumulated-cost matrix D and the step matrix are padded by one row
\* and one column: D = inf there, D[1,1] = C[0,0], steps = 0. While cell (n,m)
\* is being filled, rows holds the finished rows 1..n-1, row the finished
\* cells 1..m-1 of row n, and cur the cell itself, each cell a record
\* [d |-> D[n,m], s |-> steps[n,m]].
dtw_init(C, n, m) ==
  [d |-> IF n = 1 /\ m = 1 THEN C[1][1] ELSE Inf, s |-> 0]

D_at(rows, row, cur, n, m, nn, mm) ==
  IF nn = 0 \/ mm = 0 THEN Inf
  ELSE IF nn = n /\ mm = m THEN cur.d
  ELSE IF nn = n THEN row[mm].d
  ELSE rows[nn][mm].d

try_step_le(cur, rows, row, C, n, m, k) ==
  LET cur_D == D_at(rows, row, cur, n, m,
                    n - step_sizes_sigma[k][1], m - step_sizes_sigma[k][2])
      cur_cost == AddInf(cur_D, C[n][m])
  IN IF cur_cost <= cur.d /\ cur_cost < Inf
     THEN [d |-> cur_cost, s |-> k - 1]
     ELSE cur

\* body of the innermost loop: step k (1-based here, stored 0-based) replaces
\* the cell's cost only when strictly smaller
try_step(cur, rows, row, C, n, m, k) ==
  LET cur_D == D_at(rows, row, cur, n, m,
                    n - step_sizes_sigma[k][1], m - step_sizes_sigma[k][2])
      cur_cost == AddInf(cur_D, C[n][m])
  IN IF cur_cost < cur.d
     THEN [d |-> cur_cost, s |-> k - 1]
     ELSE cur

\* the loop over the steps, for one cell
RECURSIVE try_steps(_, _, _, _, _, _, _)
try_steps(cur, rows, row, C, n, m, k) ==
  IF k > Len(step_sizes_sigma) THEN cur
  ELSE try_steps(try_step(cur, rows, row, C, n, m, k), rows, row, C, n, m, k + 1)

\* the loop over the columns of row n
RECURSIVE fill_row(_, _, _, _, _, _)
fill_row(rows, row, C, n, M, m) ==
  IF m > M THEN row
  ELSE fill_row(rows,
                Append(row, try_steps(dtw_init(C, n, m), rows, row, C, n, m, 1)),
                C, n, M, m + 1)

\* the loop over the rows
RECURSIVE dtw_calc_accu_cost(_, _, _, _, _)
dtw_calc_accu_cost(rows, C, N, M, n) ==
  IF n > N THEN rows
  ELSE dtw_calc_accu_cost(Append(rows, fill_row(rows, <<>>, C, n, M, 1)),
                          C, N, M, n + 1)

\* backtracking over the trimmed (0-based) step matrix, from the end cell
RECURSIVE dtw_backtracking(_, _, _)
dtw_backtracking(steps, cur, path) ==
  IF cur = <<0, 0>> THEN path
  ELSE LET s == step_sizes_sigma[steps[cur[1], cur[2]] + 1]
           nxt == <<cur[1] - s[1], cur[2] - s[2]>>
       IN IF nxt[1] < 0 \/ nxt[2] < 0 THEN path
          ELSE dtw_backtracking(steps, nxt, Append(path, nxt))

\* The exceptions the library raises for input it cannot align. Which one an
\* empty sequence meets depends on the installed version: reshaping a size-0
\* array (ValueError), cdist refusing it (ParameterError), or reading C[0, 0]
\* of an empty cost matrix to seed D (IndexError).
DtwErrors == {"IndexError", "ValueError", "ParameterError"}

RECURSIVE Reverse(_)
Reverse(q) == IF Len(q) = 0 THEN <<>> ELSE Append(Reverse(Tail(q)), q[1])

Raised == [err |-> "raise", D |-> <<>>, wp |-> <<>>]

\* cost matrix, accumulated cost, backtracking, for N, M >= 1; the library
\* raises when the backtracked path does not end at (0, 0)
dtw_core(X, Y) ==
  LET N == Len(X)
      M == Len(Y)
      C == cdist(X, Y)
      T == dtw_calc_accu_cost(<<>>, C, N, M, 1)
      Dt == [i \in 0..(N - 1), j \in 0..(M - 1) |-> T[i + 1][j + 1].d]
      steps == [i \in 0..(N - 1), j \in 0..(M - 1) |-> T[i + 1][j + 1].s]
      path == dtw_backtracking(steps, <<N - 1, M - 1>>, << <<N - 1, M - 1>> >>)
  IN IF path[Len(path)] # <<0, 0>> THEN Raised
     ELSE [err |-> "none", D |-> Dt, wp |-> path]

dtw_empty_path(X, Y) ==
  IF Len(X) = 0 \/ Len(Y) = 0 THEN [err |-> "none", D |-> <<>>, wp |-> <<>>]
  ELSE dtw_core(X, Y)

\* librosa.sequence.dtw(X, Y, metric='euclidean') -> (D, wp), or an exception
\* (err = "raise": one of DtwErrors), which empty input always meets
dtw(X, Y) ==
  IF Len(X) = 0 \/ Len(Y) = 0 THEN Raised ELSE dtw_core(X, Y)

\* ------------------------------------------------------- align_with_dtw
align_with_dtw_forward(f1, f2) ==
  LET c1 == nan_to_num(hz_to_cents(f1))
      c2 == nan_to_num(hz_to_cents(f2))
      r == dtw(c1, c2)
  IN [err |-> r.err, wp |-> Reverse(r.wp), D |-> r.D, c1 |-> c1, c2 |-> c2]

align_with_dtw(f1, f2) ==
  LET c1 == nan_to_num(hz_to_cents(f1))
      c2 == nan_to_num(hz_to_cents(f2))
      r == dtw(c1, c2)
  IN [err |-> r.err, wp |-> r.wp, D |-> r.D, c1 |-> c1, c2 |-> c2]

\* ------------------------------------------------- calculate_pitch_diff
calculate_pitch_diff_swapped(f1, f2, path) ==
  Array([p \in 1..Len(path) |->
           LET i == path[p][1] + 1
               j == path[p][2] + 1
           IN IF ~isnan(f1[i]) /\ ~isnan(f2[j])
              THEN times1200(np_log2_div(f1[i], f2[j]))
              ELSE NaN])

\* wp holds 0-based indices; sequences here are 1-based
calculate_pitch_diff(f1, f2, path) ==
  Array([p \in 1..Len(path) |->
           LET i == path[p][1] + 1
               j == path[p][2] + 1
           IN IF ~isnan(f1[i]) /\ ~isnan(f2[j])
              THEN times1200(np_log2_div(f2[j], f1[i]))
              ELSE NaN])

\* ------------------------------------------------------ generate_report
RECURSIVE SelectValid(_)
SelectValid(d) ==
  IF Len(d) = 0 THEN <<>>
  ELSE IF isnan(d[1]) THEN SelectValid(Tail(d))
  ELSE <<d[1]>> \o SelectValid(Tail(d))

RECURSIVE SumSeq(_)
SumSeq(d) == IF Len(d) = 0 THEN 0 ELSE d[1].v + SumSeq(Tail(d))

\* the three masks of the tier counts (np.sum counts their TRUE entries)
is_accurate_le(x) == Abs(x) <= 25

is_accurate(x) == Abs(x) < 25

is_slightly_off(x) == Abs(x) >= 25 /\ Abs(x) < 50

is_seriously_off(x) == Abs(x) >= 50

\* The if/elif chain on accuracy_rate = 100 * accurate / total; the quotient is
\* compared exactly (100 * accurate > 80 * total iff accuracy_rate > 80).
verdict_of_ge(accurate, total) ==
  IF 100 * accurate >= 80 * total THEN "excellent"
  ELSE IF 100 * accurate >= 60 * total THEN "good"
  ELSE IF 100 * accurate >= 40 * total THEN "needs_practice"
  ELSE "needs_substantial_practice"

verdict_of(accurate, total) ==
  IF 100 * accurate > 80 * total THEN "excellent"
  ELSE IF 100 * accurate > 60 * total THEN "good"
  ELSE IF 100 * accurate > 40 * total THEN "needs_practice"
  ELSE "needs_substantial_practice"

\* The text written to output_path, as a record of the values it is built
\* from. A quotient a/b is the pair <<a, b>>. std_diff and median_diff only
\* appear as formatted numbers in the statistics block and are left out.
NoValidData ==
  [kind |-> "no_valid_data",
   lines |-> <<"cannot generate report: no valid pitch data">>]

full_report(valid_diffs) ==
  LET total == Len(valid_diffs)
      sum == SumSeq(valid_diffs)
      accurate == Cardinality({n \in 1..total : is_accurate(valid_diffs[n].v)})
      slightly_off == Cardinality({n \in 1..total : is_slightly_off(valid_diffs[n].v)})
      seriously_off == Cardinality({n \in 1..total : is_seriously_off(valid_diffs[n].v)})
  IN [kind |-> "report",
      mean_diff |-> <<sum, total>>,
      direction |-> IF sum > 0 THEN "sharp" ELSE "flat",
      accurate |-> accurate,
      slightly_off |-> slightly_off,
      seriously_off |-> seriously_off,
      total |-> total,
      pct_accurate |-> <<100 * accurate, total>>,
      pct_slightly_off |-> <<100 * slightly_off, total>>,
      pct_seriously_off |-> <<100 * seriously_off, total>>,
      accuracy_rate |-> <<100 * accurate, total>>,
      verdict |-> verdict_of(accurate, total),
      trend |-> IF Abs(sum) > 30 * total
                THEN (IF sum > 0 THEN "trend_sharp" ELSE "trend_flat")
                ELSE "none"]

generate_report_unfiltered(d) ==
  IF Len(d) = 0 THEN NoValidData ELSE full_report(SelectValid(d))

generate_report(d) ==
  LET valid_diffs == SelectValid(d)
  IN IF Len(valid_diffs) = 0 THEN NoValidData ELSE full_report(valid_diffs)

\* ------------------------------------------------------------ input sets
\* pyin yields NaN for an unvoiced frame and otherwise a frequency between
\* fmin = C2 and fmax = C7
FreqSet == {NaN, Num(220), Num(440), Num(880)}

\* any double may be handed to hz_to_cents / hz_to_note_name
HzSet == {NaN, Num(-440), Num(0), Num(110), Num(440), Num(880)}

\* deviations in cents around the tier thresholds
DevSet == {NaN, Num(0), Num(24), Num(-25), Num(49), Num(-50)}

SeqsUpTo(S, n) == UNION {[1..k -> S] : k \in 0..n}

NoReport == [kind |-> "none"]

\* ------------------------------------------------------------------ main
Init ==
  /\ pc = "start"
  /\ f0_1 = <<>> /\ f0_2 = <<>>
  /\ cents1_filled = <<>> /\ cents2_filled = <<>>
  /\ wp = <<>> /\ D = <<>> /\ diffs = <<>>
  /\ report = NoReport /\ err = "none"
  /\ cents = <<>> /\ note = <<>>

\* extract_pitch, twice: the f0 arrays of the two recordings
ExtractPitch ==
  /\ pc = "start"
  /\ \E a \in SeqsUpTo(FreqSet, MaxLen), b \in SeqsUpTo(FreqSet, MaxLen) :
       /\ f0_1' = a
       /\ f0_2' = b
  /\ pc' = "extracted"
  /\ UNCHANGED <<cents1_filled, cents2_filled, wp, D, diffs, report, err, cents, note>>

\* wp, D = align_with_dtw(...); an exception leaves main (nothing catches it)
AlignWithDtw ==
  /\ pc = "extracted"
  /\ \E r \in {align_with_dtw(f0_1, f0_2)} :
        IF r.err # "none"
        THEN /\ err' \in DtwErrors
             /\ pc' = "raised"
             /\ UNCHANGED <<cents1_filled, cents2_filled, wp, D>>
        ELSE /\ wp' = r.wp
             /\ D' = r.D
             /\ cents1_filled' = r.c1
             /\ cents2_filled' = r.c2
             /\ pc' = "aligned"
             /\ err' = "none"
  /\ UNCHANGED <<f0_1, f0_2, diffs, report, cents, note>>

\* diffs = plot_pitch_comparison(...), which calls calculate_pitch_diff
PlotPitchComparison ==
  /\ pc = "aligned"
  /\ diffs' = calculate_pitch_diff(f0_1, f0_2, wp)
  /\ pc' = "plotted"
  /\ UNCHANGED <<f0_1, f0_2, cents1_filled, cents2_filled, wp, D, report, err, cents, note>>

GenerateReport ==
  /\ pc = "plotted"
  /\ report' = generate_report(diffs)
  /\ pc' = "done"
  /\ UNCHANGED <<f0_1, f0_2, cents1_filled, cents2_filled, wp, D, diffs, err, cents, note>>

Next == ExtractPitch \/ AlignWithDtw \/ PlotPitchComparison \/ GenerateReport

Spec == Init /\ [][Next]_vars

\* ------------------------------------- generate_report on any deviations
InitReport ==
  /\ pc = "plotted"
  /\ diffs \in SeqsUpTo(DevSet, MaxDiffs)
  /\ f0_1 = <<>> /\ f0_2 = <<>>
  /\ cents1_filled = <<>> /\ cents2_filled = <<>>
  /\ wp = <<>> /\ D = <<>>
  /\ report = NoReport /\ err = "none"
  /\ cents = <<>> /\ note = <<>>

NextReport == GenerateReport

SpecReport == InitReport /\ [][NextReport]_vars

\* ------------------------------- hz_to_cents / hz_to_note_name on any f0
InitCents ==
  /\ pc = "f0"
  /\ f0_1 \in SeqsUpTo(HzSet, MaxLen) \ {<<>>}
  /\ f0_2 = <<>>
  /\ cents1_filled = <<>> /\ cents2_filled = <<>>
  /\ wp = <<>> /\ D = <<>> /\ diffs = <<>>
  /\ report = NoReport /\ err = "none"
  /\ cents = <<>> /\ note = <<>>

HzToCents ==
  /\ pc = "f0"
  /\ cents' = hz_to_cents(f0_1)
  /\ pc' = "cents"
  /\ UNCHANGED <<f0_1, f0_2, cents1_filled, cents2_filled, wp, D, diffs, report, err, note>>

NanToNum ==
  /\ pc = "cents"
  /\ cents1_filled' = nan_to_num(cents)
  /\ pc' = "filled"
  /\ UNCHANGED <<f0_1, f0_2, cents2_filled, wp, D, diffs, report, err, cents, note>>

\* note[n] = hz_to_note_name(f0_1[n])
HzToNoteName ==
  /\ pc = "filled"
  /\ note' = Array([n \in 1..Len(f0_1) |-> hz_to_note_name(f0_1[n])])
  /\ pc' = "named"
  /\ UNCHANGED <<f0_1, f0_2, cents1_filled, cents2_filled, wp, D, diffs, report, err, cents>>

NextCents == HzToCents \/ NanToNum \/ HzToNoteName

SpecCents == InitCents /\ [][NextCents]_vars

\* =============================================================== claims
N1 == Len(f0_1)
M1 == Len(f0_2)

UnitSteps == {<<1, 0>>, <<0, 1>>, <<1, 1>>}

\* local cost |a[i] - b[j]| of the zero-filled cents, 0-based i, j
LocalCost(i, j) == Abs(cents1_filled[i + 1].v - cents2_filled[j + 1].v)

RECURSIVE PathCost(_)
PathCost(q) ==
  IF Len(q) = 0 THEN 0 ELSE LocalCost(q[1][1], q[1][2]) + PathCost(Tail(q))

\* the predecessors of cell (i, j) that lie in the matrix
Preds(i, j) ==
  {q \in {<<i - 1, j - 1>>, <<i - 1, j>>, <<i, j - 1>>} : q[1] >= 0 /\ q[2] >= 0}

\* Walks every monotonic unit-step path from (i,j) back to (0,0), acc being
\* the cost of the cells already passed: TRUE iff each path costs at least c
RECURSIVE EveryPathAtLeast(_, _, _, _)
EveryPathAtLeast(i, j, acc, c) ==
  LET a == acc + LocalCost(i, j)
  IN IF i = 0 /\ j = 0 THEN a >= c
     ELSE \A r \in Preds(i, j) : EveryPathAtLeast(r[1], r[2], a, c)

MinOf(S) == CHOOSE x \in S : \A y \in S : x <= y

\* predecessors of (i, j) whose accumulated cost is the least
Tied(i, j) == {q \in Preds(i, j) : \A r \in Preds(i, j) : D[q[1], q[2]] <= D[r[1], r[2]]}

\* ---- C1 ----------------------------------------------------------------
\* C1 (as stated): the path, in the order align_with_dtw returns it, starts
\* at (0,0), ends at (N-1,M-1), and each pair is the previous one plus
\* (1,0), (0,1) or (1,1).
C1_ForwardPath ==
  pc = "aligned" =>
    /\ wp[1] = <<0, 0>>
    /\ wp[Len(wp)] = <<N1 - 1, M1 - 1>>
    /\ \A p \in 1..(Len(wp) - 1) :
         <<wp[p + 1][1] - wp[p][1], wp[p + 1][2] - wp[p][2]>> \in UnitSteps

\* C1 (amended): the path is returned end first: it starts at (N-1,M-1), ends
\* at (0,0), and each pair is the previous one minus (1,0), (0,1) or (1,1).
C1_BackwardPath ==
  pc = "aligned" =>
    /\ wp[1] = <<N1 - 1, M1 - 1>>
    /\ wp[Len(wp)] = <<0, 0>>
    /\ \A p \in 1..(Len(wp) - 1) :
         <<wp[p][1] - wp[p + 1][1], wp[p][2] - wp[p + 1][2]>> \in UnitSteps

C1_Witness ==
  /\ pc = "aligned"
  /\ N1 = 3 /\ M1 = 2
  /\ \E p \in 1..(Len(wp) - 1) : wp[p][1] - wp[p + 1][1] = 1 /\ wp[p][2] - wp[p + 1][2] = 1
  /\ \E p \in 1..(Len(wp) - 1) : wp[p][1] - wp[p + 1][1] = 1 /\ wp[p][2] = wp[p + 1][2]

\* ---- C2 ----------------------------------------------------------------
\* C2: calculate_pitch_diff gives one entry per path step, in path order; the
\* entry for step (i,j) is missing iff f0_1[i] or f0_2[j] is missing, and is
\* otherwise 1200*log2(f0_2[j]/f0_1[i]): positive iff the candidate is higher,
\* zero iff equal, negative iff lower.
C2_PitchDiff ==
  pc = "plotted" =>
    /\ Len(diffs) = Len(wp)
    /\ \A p \in 1..Len(wp) :
         LET a == f0_1[wp[p][1] + 1]
             b == f0_2[wp[p][2] + 1]
         IN /\ isnan(diffs[p]) <=> (isnan(a) \/ isnan(b))
            /\ ~isnan(diffs[p]) =>
                 /\ diffs[p] = Num(1200 * Log2(b.v, a.v))
                 /\ diffs[p].v > 0 <=> b.v > a.v
                 /\ diffs[p].v = 0 <=> b.v = a.v
                 /\ diffs[p].v < 0 <=> b.v < a.v

C2_Witness ==
  /\ pc = "plotted"
  /\ Len(diffs) = 4
  /\ \E p \in 1..4 : isnan(diffs[p])
  /\ \E p \in 1..4 : ~isnan(diffs[p]) /\ diffs[p].v > 0
  /\ \E p \in 1..4 : ~isnan(diffs[p]) /\ diffs[p].v < 0
  /\ \E p \in 1..4 : ~isnan(diffs[p]) /\ diffs[p].v = 0

\* ---- C3 ----------------------------------------------------------------
\* C3: a curve aligned against itself gives exactly the pairs (k,k), one per
\* index k, and a deviation that is 0 where the curve is voiced and missing
\* where it is missing.
C3_SelfAlignment ==
  (pc = "plotted" /\ f0_1 = f0_2) =>
    /\ Len(wp) = N1
    /\ {wp[p] : p \in 1..Len(wp)} = {<<k, k>> : k \in 0..(N1 - 1)}
    /\ \A p \in 1..Len(wp) :
         diffs[p] = IF isnan(f0_1[wp[p][1] + 1]) THEN NaN ELSE Num(0)

C3_Witness ==
  /\ pc = "plotted"
  /\ f0_1 = f0_2
  /\ N1 = 3
  /\ isnan(f0_1[2])
  /\ ~isnan(f0_1[1]) /\ f0_1[1] = f0_1[3]
  /\ diffs = <<Num(0), NaN, Num(0)>>

\* ---- C4 ----------------------------------------------------------------
NonMissing == {n \in 1..Len(diffs) : ~isnan(diffs[n])}

TierOf(x) ==
  {t \in {"accurate", "slightly_off", "seriously_off"} :
     \/ t = "accurate" /\ Abs(x) < 25
     \/ t = "slightly_off" /\ 25 <= Abs(x) /\ Abs(x) < 50
     \/ t = "seriously_off" /\ Abs(x) >= 50}

InTier(t) == Cardinality({n \in NonMissing : t \in TierOf(diffs[n].v)})

C5_NoValidData ==
  (pc = "done" /\ NonMissing = {}) =>
    /\ err = "none"
    /\ report.kind = "no_valid_data"
    /\ DOMAIN report = {"kind", "lines"}
    /\ Len(report.lines) = 1

C5_Witness ==
  /\ pc = "done"
  /\ Len(diffs) = 3
  /\ NonMissing = {}
  /\ report = NoValidData

\* ---- C6 ----------------------------------------------------------------
\* C6: with p = 100*accurate/total the verdict is "excellent" iff p > 80,
\* "good" iff 60 < p <= 80, "needs practice" iff 40 < p <= 60 and "needs
\* substantial practice" iff p <= 40.
C6_Verdict ==
  (pc = "done" /\ NonMissing # {}) =>
    LET a == 100 * InTier("accurate")
        t == Cardinality(NonMissing)
    IN /\ report.verdict \in
            {"excellent", "good", "needs_practice", "needs_substantial_practice"}
       /\ report.verdict = "excellent" <=> a > 80 * t
       /\ report.verdict = "good" <=> (60 * t < a /\ a <= 80 * t)
       /\ report.verdict = "needs_practice" <=> (40 * t < a /\ a <= 60 * t)
       /\ report.verdict = "needs_substantial_practice" <=> a <= 40 * t

C6_Witness ==
  /\ pc = "done"
  /\ Cardinality(NonMissing) = 5
  /\ InTier("accurate") = 4
  /\ report.verdict = "good"

\* ---- C7 ----------------------------------------------------------------
\* C7: hz_to_cents gives missing for every frequency that is missing, zero or
\* negative, so that zero-filling turns each of them into 0, and
\* hz_to_note_name gives the empty string for them.
C7_NonPositiveIsMissing ==
  \A n \in 1..Len(f0_1) :
    (isnan(f0_1[n]) \/ f0_1[n].v <= 0) =>
      /\ pc \in {"cents", "filled", "named"} => isnan(cents[n])
      /\ pc \in {"filled", "named"} => cents1_filled[n] = Num(0)
      /\ pc = "named" => note[n] = <<>>

\* ---- C8 ----------------------------------------------------------------
AfterAlign == pc \notin {"start", "extracted"}

\* C8 (as stated): with an empty curve align_with_dtw fails with
\* EmptyContourError and returns no path.
C8_EmptyContourError ==
  (AfterAlign /\ (N1 = 0 \/ M1 = 0)) =>
    /\ pc = "raised"
    /\ err = "EmptyContourError"
    /\ wp = <<>>

\* C8 (amended): with an empty curve align_with_dtw fails with an exception
\* raised inside the library's dtw, which leaves main uncaught; no path is
\* returned and nothing after the alignment runs.
C8_EmptyRaises ==
  (AfterAlign /\ (N1 = 0 \/ M1 = 0)) =>
    /\ pc = "raised"
    /\ err \in DtwErrors
    /\ wp = <<>> /\ diffs = <<>> /\ report = NoReport

C8_Witness ==
  /\ pc = "raised"
  /\ N1 = 0 /\ M1 = 2
  /\ err # "none"

\* ---- C9 ----------------------------------------------------------------
\* C9: the local costs |a[i]-b[j]| of the zero-filled cents along the returned
\* path add up to the accumulated cost of the end cell, the accumulated costs
\* satisfy the recurrence (first cell: its own cost), and no monotonic
\* unit-step path between (0,0) and (N-1,M-1) costs less.
C9_LeastCost ==
  pc = "aligned" =>
    \E cost \in {PathCost(wp)} :
      /\ cost = D[N1 - 1, M1 - 1]
      /\ \A i \in 0..(N1 - 1), j \in 0..(M1 - 1) :
           D[i, j] = LocalCost(i, j)
                     + (IF i = 0 /\ j = 0 THEN 0
                        ELSE MinOf({D[q[1], q[2]] : q \in Preds(i, j)}))
      /\ EveryPathAtLeast(N1 - 1, M1 - 1, 0, cost)

C9_Witness ==
  /\ pc = "aligned"
  /\ N1 = 3 /\ M1 = 3
  /\ \E n \in 1..3 : isnan(f0_1[n])
  /\ PathCost(wp) > 0
  /\ PathCost(<< <<2, 2>>, <<1, 1>>, <<0, 0>> >>) > PathCost(wp)

\* ---- C10 ---------------------------------------------------------------
\* the step of the path out of wp[p] goes to predecessor q
Chooses(p, q) == wp[p + 1] = q

\* C10 (as stated): where predecessors tie for the least accumulated cost the
\* path takes the diagonal one if it is tied, otherwise the up one (i-1,j)
\* rather than the left one (i,j-1).
C10_DiagonalUpLeft ==
  pc = "aligned" =>
    \A p \in 1..(Len(wp) - 1) :
      LET i == wp[p][1]
          j == wp[p][2]
      IN Cardinality(Tied(i, j)) >= 2 =>
           IF <<i - 1, j - 1>> \in Tied(i, j)
           THEN Chooses(p, <<i - 1, j - 1>>)
           ELSE Chooses(p, <<i - 1, j>>)

\* C10 (amended): where predecessors tie for the least accumulated cost the
\* path takes the diagonal one if it is tied, otherwise the left one (i,j-1)
\* rather than the up one (i-1,j).
C10_DiagonalLeftUp ==
  pc = "aligned" =>
    \A p \in 1..(Len(wp) - 1) :
      LET i == wp[p][1]
          j == wp[p][2]
      IN Cardinality(Tied(i, j)) >= 2 =>
           IF <<i - 1, j - 1>> \in Tied(i, j)
           THEN Chooses(p, <<i - 1, j - 1>>)
           ELSE Chooses(p, <<i, j - 1>>)

C10_Witness ==
  /\ pc = "aligned"
  /\ \E p \in 1..(Len(wp) - 1) :
       LET i == wp[p][1]
           j == wp[p][2]
       IN /\ Tied(i, j) = {<<i - 1, j>>, <<i, j - 1>>}
          /\ wp[p + 1] = <<i, j - 1>>

====
